---- MODULE Spec2Model ----
(***************************************************************************)
(* Model of the chaind PostgreSQL persistence layer:                       *)
(*   services/chaindb/postgresql/chainspec.go                              *)
(*   services/chaindb/postgresql/genesis.go                                *)
(*   services/chaindb/postgresql/executionpayload.go                       *)
(*                                                                         *)
(* Strings are sequences of one-character strings, so that prefix, suffix, *)
(* hex and decimal parsing are computed character by character.  64-bit    *)
(* integers are little-endian sequences of eight base-256 limbs, so that   *)
(* range errors and wrap-around happen at the width the program uses.      *)
(***************************************************************************)
EXTENDS Integers, Sequences, FiniteSets, Bags, TLC

VARIABLES
    t_genesis,                    \* bag of rows of table t_genesis
    t_chain_spec,                 \* bag of rows of table t_chain_spec
    t_block_execution_payloads,   \* bag of rows of table t_block_execution_payloads
    txOpen,                       \* the caller holds an open read/write transaction
    roOpen,                       \* number of read-only transactions begun and not yet committed
    last,                         \* the last store call: operation, context, input, events, outcome
    cpc,                          \* codec run: position ("start", "encoded", "decoded")
    ckey,                         \* codec run: the key
    cvalue,                       \* codec run: the typed value handed to SetChainSpecValue
    cdbVal,                       \* codec run: the string stored in f_value
    cspec                         \* codec run: the value dbValToSpec returns

vars == <<t_genesis, t_chain_spec, t_block_execution_payloads, txOpen, roOpen, last,
          cpc, ckey, cvalue, cdbVal, cspec>>

tables == <<t_genesis, t_chain_spec, t_block_execution_payloads>>

codecVars == <<cpc, ckey, cvalue, cdbVal, cspec>>

storeVars == <<t_genesis, t_chain_spec, t_block_execution_payloads, txOpen, roOpen, last>>

----------------------------------------------------------------------------
(* Bounds *)

\* longest opaque string enumerated over Alphabet
MaxValLen == 4

\* bytes modelled of each fixed-width hash, root, address and bloom field
HashLen == 2

\* most rows the three tables hold together
MaxRows == 2

----------------------------------------------------------------------------
(* Strings (Go package strings) *)

HasPrefix(s, prefix) ==
    Len(s) >= Len(prefix) /\ SubSeq(s, 1, Len(prefix)) = prefix

HasSuffix(s, suffix) ==
    Len(s) >= Len(suffix) /\ SubSeq(s, Len(s) - Len(suffix) + 1, Len(s)) = suffix

TrimPrefix(s, prefix) ==
    IF HasPrefix(s, prefix) THEN SubSeq(s, Len(prefix) + 1, Len(s)) ELSE s

----------------------------------------------------------------------------
(* 64-bit integers as limbs *)

\* bitSize argument of strconv.ParseUint / strconv.ParseInt
bitSize == 64

LimbBase == 2 ^ 8

NumLimbs == bitSize \div 8

ZeroLimbs == [i \in 1..NumLimbs |-> 0]

IsZero(n) == \A i \in 1..Len(n) : n[i] = 0

\* n * m + c, limb by limb; the result has one limb more than n: the carry out
RECURSIVE mulAddLimbs(_, _, _)
mulAddLimbs(n, m, c) ==
    IF n = <<>> THEN <<c>>
    ELSE LET t == Head(n) * m + c
         IN  <<t % LimbBase>> \o mulAddLimbs(Tail(n), m, t \div LimbBase)

\* n divided by the small number d, from the top limb down; r is the running remainder
RECURSIVE divLimbs(_, _, _)
divLimbs(n, d, r) ==
    IF n = <<>> THEN [q |-> <<>>, r |-> r]
    ELSE LET t    == r * LimbBase + n[Len(n)]
             rest == divLimbs(SubSeq(n, 1, Len(n) - 1), d, t % d)
         IN  [q |-> Append(rest.q, t \div d), r |-> rest.r]

\* the limbs of a small natural number
RECURSIVE natLimbs(_, _)
natLimbs(x, k) ==
    IF k = 0 THEN <<>> ELSE <<x % LimbBase>> \o natLimbs(x \div LimbBase, k - 1)

U64(x) == natLimbs(x, NumLimbs)

\* two's complement
IsNeg(n) == n[Len(n)] >= LimbBase \div 2

Negate(n) ==
    SubSeq(mulAddLimbs([i \in 1..Len(n) |-> LimbBase - 1 - n[i]], 1, 1), 1, Len(n))

Abs(n) == IF IsNeg(n) THEN Negate(n) ELSE n

\* unsigned comparison n > m of two limb sequences of equal length
RECURSIVE gtLimbs(_, _)
gtLimbs(n, m) ==
    IF n = <<>> THEN FALSE
    ELSE LET k == Len(n)
         IN  IF n[k] # m[k] THEN n[k] > m[k]
             ELSE gtLimbs(SubSeq(n, 1, k - 1), SubSeq(m, 1, k - 1))

\* 1 << (bitSize-1)
SignCutoff == [i \in 1..NumLimbs |-> IF i = NumLimbs THEN LimbBase \div 2 ELSE 0]

----------------------------------------------------------------------------
(* Decimal and hexadecimal text (Go packages strconv, fmt, encoding/hex) *)

Digits == <<"0", "1", "2", "3", "4", "5", "6", "7", "8", "9">>

HexDigits == <<"0", "1", "2", "3", "4", "5", "6", "7", "8", "9",
               "a", "b", "c", "d", "e", "f">>

UpperHexDigits == <<"0", "1", "2", "3", "4", "5", "6", "7", "8", "9",
                    "A", "B", "C", "D", "E", "F">>

IsDigit(c) == \E i \in 1..10 : Digits[i] = c

DigitVal(c) == (CHOOSE i \in 1..10 : Digits[i] = c) - 1

\* encoding/hex fromHexChar: 0..15, or 255 for a character that is no hex digit
fromHexChar(c) ==
    IF \E i \in 1..16 : HexDigits[i] = c
        THEN (CHOOSE i \in 1..16 : HexDigits[i] = c) - 1
    ELSE IF \E i \in 1..16 : UpperHexDigits[i] = c
        THEN (CHOOSE i \in 1..16 : UpperHexDigits[i] = c) - 1
    ELSE 255

\* strconv.ParseUint(s, 10, bitSize): digits only, no sign; range error on overflow
RECURSIVE parseDigits(_, _)
parseDigits(s, n) ==
    IF s = <<>> THEN [err |-> FALSE, val |-> n]
    ELSE IF ~IsDigit(Head(s)) THEN [err |-> TRUE, val |-> ZeroLimbs]
    ELSE LET t == mulAddLimbs(n, 10, DigitVal(Head(s)))
         IN  IF t[Len(t)] # 0 THEN [err |-> TRUE, val |-> ZeroLimbs]
             ELSE parseDigits(Tail(s), SubSeq(t, 1, Len(n)))

ParseUint(s) ==
    IF s = <<>> THEN [err |-> TRUE, val |-> ZeroLimbs]
    ELSE parseDigits(s, ZeroLimbs)

\* strconv.ParseInt(s, 10, bitSize): optional sign, then ParseUint, then the signed range
ParseInt(s) ==
    IF s = <<>> THEN [err |-> TRUE, val |-> ZeroLimbs]
    ELSE LET neg  == Head(s) = "-"
             rest == IF Head(s) \in {"+", "-"} THEN Tail(s) ELSE s
             un   == ParseUint(rest)
         IN  IF un.err THEN [err |-> TRUE, val |-> ZeroLimbs]
             ELSE IF ~neg /\ ~gtLimbs(SignCutoff, un.val) THEN [err |-> TRUE, val |-> ZeroLimbs]
             ELSE IF neg /\ gtLimbs(un.val, SignCutoff) THEN [err |-> TRUE, val |-> ZeroLimbs]
             ELSE [err |-> FALSE, val |-> IF neg THEN Negate(un.val) ELSE un.val]

\* strconv.FormatUint(n, 10)
RECURSIVE formatDigits(_)
formatDigits(n) ==
    IF IsZero(n) THEN <<>>
    ELSE LET dm == divLimbs(n, 10, 0)
         IN  Append(formatDigits(dm.q), Digits[dm.r + 1])

FormatUint(n) == IF IsZero(n) THEN <<"0">> ELSE formatDigits(n)

\* strconv.FormatInt(n, 10) / strconv.Itoa
FormatInt(n) == IF IsNeg(n) THEN <<"-">> \o FormatUint(Negate(n)) ELSE FormatUint(n)

\* hex.DecodeString: fails on an odd length or on a character that is no hex digit
RECURSIVE hexPairs(_)
hexPairs(s) ==
    IF Len(s) < 2 THEN <<>>
    ELSE <<fromHexChar(s[1]) * 16 + fromHexChar(s[2])>> \o hexPairs(SubSeq(s, 3, Len(s)))

DecodeString(s) ==
    IF Len(s) % 2 = 1 \/ \E i \in 1..Len(s) : fromHexChar(s[i]) > 15
        THEN [err |-> TRUE, bytes |-> <<>>]
    ELSE [err |-> FALSE, bytes |-> hexPairs(s)]

RECURSIVE hexOf(_)
hexOf(b) ==
    IF b = <<>> THEN <<>>
    ELSE <<HexDigits[(Head(b) \div 16) + 1], HexDigits[(Head(b) % 16) + 1]>> \o hexOf(Tail(b))

\* fmt.Sprintf("%#x", b): nothing at all for an empty byte string
SprintfHex(b) == IF b = <<>> THEN <<>> ELSE <<"0", "x">> \o hexOf(b)

\* copy(dst[:], src) into a zeroed array of n bytes
CopyInto(n, src) == [i \in 1..n |-> IF i <= Len(src) THEN src[i] ELSE 0]

----------------------------------------------------------------------------
(* Chain-spec values and keys *)

\* the key patterns dbValToSpec looks for
DomainPrefix == <<"D", "O", "M", "A", "I", "N", "_">>

ForkVersionSuffix == <<"_", "F", "O", "R", "K", "_", "V", "E", "R", "S", "I", "O", "N">>

HexPrefix == <<"0", "x">>

TimeSuffix == <<"_", "T", "I", "M", "E">>

SecondsPerPrefix == <<"S", "E", "C", "O", "N", "D", "S", "_", "P", "E", "R", "_">>

DelaySuffix == <<"_", "D", "E", "L", "A", "Y">>

\* typed values, by the type class the code distinguishes
UintVal(n) == [t |-> "uint64", n |-> n]

BytesVal(b) == [t |-> "[]byte", b |-> b]

VersionVal(b) == [t |-> "Version", b |-> b]

DomainTypeVal(b) == [t |-> "DomainType", b |-> b]

DurationVal(ns) == [t |-> "Duration", ns |-> ns]

TimeVal(sec, nsec) == [t |-> "Time", sec |-> sec, nsec |-> nsec]

StringVal(s) == [t |-> "string", s |-> s]

\* phase0.DomainType and phase0.Version are [4]byte
DomainTypeLen == 4

VersionLen == 4

\* n * time.Second in int64 arithmetic (10^9 = 1000 * 1000 * 1000): the product wraps at 64 bits
MulSecond(n) ==
    LET a == SubSeq(mulAddLimbs(n, 1000, 0), 1, Len(n))
        b == SubSeq(mulAddLimbs(a, 1000, 0), 1, Len(n))
    IN  SubSeq(mulAddLimbs(b, 1000, 0), 1, Len(n))

\* int(d.Seconds()): whole seconds of an int64 count of nanoseconds, truncated towards zero
\* (for whole seconds the float64 sum in Seconds() is exact)
DurationSeconds(ns) ==
    LET a == divLimbs(Abs(ns), 1000, 0).q
        b == divLimbs(a, 1000, 0).q
        c == divLimbs(b, 1000, 0).q
    IN  IF IsNeg(ns) THEN Negate(c) ELSE c

----------------------------------------------------------------------------
(* The codec: SetChainSpecValue's encoding and dbValToSpec *)

\* the string SetChainSpecValue stores for a value (the type switch)
dbValOfAsNoHexPrefix(value) ==
    CASE value.t = "uint64" -> FormatUint(value.n)
      [] value.t \in {"[]byte", "Version", "DomainType"} -> hexOf(value.b)
      [] value.t = "Duration" -> FormatInt(DurationSeconds(value.ns))
      [] value.t = "Time" -> FormatInt(value.sec)
      [] OTHER -> value.s

dbValOf(value) ==
    CASE value.t = "uint64" -> FormatUint(value.n)
      [] value.t \in {"[]byte", "Version", "DomainType"} -> SprintfHex(value.b)
      [] value.t = "Duration" -> FormatInt(DurationSeconds(value.ns))
      [] value.t = "Time" -> FormatInt(value.sec)
      [] OTHER -> value.s

\* dbValToSpec with the domain rule after the fork-version rule
dbValToSpecAsForkVersionFirst(key, val) ==
    LET hexVal == DecodeString(TrimPrefix(val, HexPrefix))
        intVal == ParseInt(val)
        uintVal == ParseUint(val)
    IN  IF HasSuffix(key, ForkVersionSuffix) /\ ~hexVal.err
            THEN VersionVal(CopyInto(VersionLen, hexVal.bytes))
        ELSE IF HasPrefix(key, DomainPrefix) /\ ~hexVal.err
            THEN DomainTypeVal(CopyInto(DomainTypeLen, hexVal.bytes))
        ELSE IF HasPrefix(val, HexPrefix) /\ ~hexVal.err
            THEN BytesVal(hexVal.bytes)
        ELSE IF HasSuffix(key, TimeSuffix) /\ ~intVal.err /\ ~IsZero(intVal.val)
            THEN TimeVal(intVal.val, 0)
        ELSE IF (HasPrefix(key, SecondsPerPrefix) \/ HasSuffix(key, DelaySuffix))
                /\ ~uintVal.err /\ ~IsZero(uintVal.val)
            THEN DurationVal(MulSecond(uintVal.val))
        ELSE IF val = <<"0">>
            THEN UintVal(ZeroLimbs)
        ELSE IF ~uintVal.err /\ ~IsZero(uintVal.val)
            THEN UintVal(uintVal.val)
        ELSE StringVal(val)

\* dbValToSpec giving up with a failure when the hex of a domain or fork version is malformed
dbValToSpecAsAbortOnBadHex(key, val) ==
    LET hexVal == DecodeString(TrimPrefix(val, HexPrefix))
        intVal == ParseInt(val)
        uintVal == ParseUint(val)
    IN  IF HasPrefix(key, DomainPrefix)
            THEN IF hexVal.err THEN [t |-> "failure"]
                 ELSE DomainTypeVal(CopyInto(DomainTypeLen, hexVal.bytes))
        ELSE IF HasSuffix(key, ForkVersionSuffix)
            THEN IF hexVal.err THEN [t |-> "failure"]
                 ELSE VersionVal(CopyInto(VersionLen, hexVal.bytes))
        ELSE IF HasPrefix(val, HexPrefix) /\ ~hexVal.err
            THEN BytesVal(hexVal.bytes)
        ELSE IF HasSuffix(key, TimeSuffix) /\ ~intVal.err /\ ~IsZero(intVal.val)
            THEN TimeVal(intVal.val, 0)
        ELSE IF (HasPrefix(key, SecondsPerPrefix) \/ HasSuffix(key, DelaySuffix))
                /\ ~uintVal.err /\ ~IsZero(uintVal.val)
            THEN DurationVal(MulSecond(uintVal.val))
        ELSE IF val = <<"0">>
            THEN UintVal(ZeroLimbs)
        ELSE IF ~uintVal.err /\ ~IsZero(uintVal.val)
            THEN UintVal(uintVal.val)
        ELSE StringVal(val)

\* dbValToSpec: the typed value for a stored string, from the key's name and the string's form
dbValToSpec(key, val) ==
    LET hexVal == DecodeString(TrimPrefix(val, HexPrefix))
        intVal == ParseInt(val)
        uintVal == ParseUint(val)
    IN  IF HasPrefix(key, DomainPrefix) /\ ~hexVal.err
            THEN DomainTypeVal(CopyInto(DomainTypeLen, hexVal.bytes))
        ELSE IF HasSuffix(key, ForkVersionSuffix) /\ ~hexVal.err
            THEN VersionVal(CopyInto(VersionLen, hexVal.bytes))
        ELSE IF HasPrefix(val, HexPrefix) /\ ~hexVal.err
            THEN BytesVal(hexVal.bytes)
        ELSE IF HasSuffix(key, TimeSuffix) /\ ~intVal.err /\ ~IsZero(intVal.val)
            THEN TimeVal(intVal.val, 0)
        ELSE IF (HasPrefix(key, SecondsPerPrefix) \/ HasSuffix(key, DelaySuffix))
                /\ ~uintVal.err /\ ~IsZero(uintVal.val)
            THEN DurationVal(MulSecond(uintVal.val))
        ELSE IF val = <<"0">>
            THEN UintVal(ZeroLimbs)
        ELSE IF ~uintVal.err /\ ~IsZero(uintVal.val)
            THEN UintVal(uintVal.val)
        ELSE StringVal(val)

----------------------------------------------------------------------------
(* Inputs of the codec runs *)

KeyDomainBeaconAttester == <<"D", "O", "M", "A", "I", "N", "_", "B", "E", "A", "C", "O", "N", "_", "A", "T", "T", "E", "S", "T", "E", "R">>

KeyGenesisForkVersion == <<"G", "E", "N", "E", "S", "I", "S", "_", "F", "O", "R", "K", "_", "V", "E", "R", "S", "I", "O", "N">>

KeySecondsPerSlot == <<"S", "E", "C", "O", "N", "D", "S", "_", "P", "E", "R", "_", "S", "L", "O", "T">>

KeyGenesisTime == <<"G", "E", "N", "E", "S", "I", "S", "_", "T", "I", "M", "E">>

KeyGenesisDelay == <<"G", "E", "N", "E", "S", "I", "S", "_", "D", "E", "L", "A", "Y">>

KeyDomainForkVersion == <<"D", "O", "M", "A", "I", "N", "_", "F", "O", "R", "K", "_", "V", "E", "R", "S", "I", "O", "N">>

KeySecondsPerTime == <<"S", "E", "C", "O", "N", "D", "S", "_", "P", "E", "R", "_", "T", "I", "M", "E">>

KeyMaxCommitteesPerSlot == <<"M", "A", "X", "_", "C", "O", "M", "M", "I", "T", "T", "E", "E", "S", "_", "P", "E", "R", "_", "S", "L", "O", "T">>

KeyDomain == <<"D", "O", "M", "A", "I", "N">>

CodecKeys ==
    {KeyDomainBeaconAttester, KeyGenesisForkVersion, KeySecondsPerSlot, KeyGenesisTime,
     KeyGenesisDelay, KeyDomainForkVersion, KeySecondsPerTime, KeyMaxCommitteesPerSlot,
     KeyDomain}

Alphabet == {"0", "1", "x", "a", "g", "-"}

\* 2^55, 2^63 and 2^64-1
Pow55 == [i \in 1..NumLimbs |-> IF i = NumLimbs - 1 THEN LimbBase \div 2 ELSE 0]

MaxUint64 == [i \in 1..NumLimbs |-> LimbBase - 1]

\* the largest whole number of seconds a time.Duration holds
MaxDurationSeconds == DurationSeconds([i \in 1..NumLimbs |->
                          IF i = NumLimbs THEN LimbBase \div 2 - 1 ELSE LimbBase - 1])

UintInputs == {U64(0), U64(1), U64(12), Pow55, SignCutoff, MaxUint64}

ByteInputs == {<<>>, <<0, 0, 0, 0>>, <<1, 0, 0, 0>>, <<171>>, <<1, 2, 3, 4, 5>>}

FourByteInputs == {<<0, 0, 0, 0>>, <<1, 0, 0, 0>>, <<18, 52, 86, 120>>}

DurationInputs ==
    {U64(0), MulSecond(U64(12)), U64(1500000000), Negate(MulSecond(U64(1))),
     MulSecond(MaxDurationSeconds)}

TimeInputs ==
    {TimeVal(U64(0), 0), TimeVal(U64(1606824023), 0), TimeVal(Negate(U64(5)), 0),
     TimeVal(U64(12), 500000000), TimeVal(SignCutoff, 0)}

StringInputs ==
    UNION {[1..n -> Alphabet] : n \in 0..MaxValLen}
    \cup {<<"1", "8", "4", "4", "6", "7", "4", "4", "0", "7", "3", "7", "0", "9", "5", "5", "1", "6", "1", "6">>, <<"+", "5">>, <<"0", "1", "2">>, <<"0", "x", "A", "B">>, <<"0", "x", "0", "g">>, <<"m", "a", "i", "n", "n", "e", "t">>}

CodecValues ==
    {UintVal(n) : n \in UintInputs}
    \cup {BytesVal(b) : b \in ByteInputs}
    \cup {VersionVal(b) : b \in FourByteInputs}
    \cup {DomainTypeVal(b) : b \in FourByteInputs}
    \cup {DurationVal(ns) : ns \in DurationInputs}
    \cup TimeInputs
    \cup {StringVal(str) : str \in StringInputs}

NoValue == [t |-> "none"]

----------------------------------------------------------------------------
(* The codec runs: one key and one typed value, encoded and then decoded *)

InitStore ==
    /\ t_genesis = EmptyBag
    /\ t_chain_spec = EmptyBag
    /\ t_block_execution_payloads = EmptyBag
    /\ txOpen = FALSE
    /\ roOpen = 0
    /\ last = [op |-> "none", ctx |-> [tx |-> FALSE, cancelled |-> FALSE], arg |-> NoValue,
               prior |-> [t |-> "norow"], events |-> <<>>, err |-> "nil", res |-> NoValue]

InitCodec ==
    /\ InitStore
    /\ cpc = "start"
    /\ ckey \in CodecKeys
    /\ cvalue \in CodecValues
    /\ cdbVal = <<>>
    /\ cspec = NoValue

\* SetChainSpecValue computes the string to store
CodecEncode ==
    /\ cpc = "start"
    /\ cdbVal' = dbValOf(cvalue)
    /\ cpc' = "encoded"
    /\ UNCHANGED <<ckey, cvalue, cspec>>
    /\ UNCHANGED storeVars

\* ChainSpecValue and ChainSpec decode the stored string
CodecDecode ==
    /\ cpc = "encoded"
    /\ cspec' = dbValToSpec(ckey, cdbVal)
    /\ cpc' = "decoded"
    /\ UNCHANGED <<ckey, cvalue, cdbVal>>
    /\ UNCHANGED storeVars

NextCodec == CodecEncode \/ CodecDecode

SpecCodec == InitCodec /\ [][NextCodec]_vars

----------------------------------------------------------------------------
(* Contexts, transactions and the outcome of a call *)

\* a context carries the caller's transaction or none, and may already be cancelled
Ctxs == {c \in [tx : BOOLEAN, cancelled : BOOLEAN] : c.tx => txOpen}

\* s.tx(ctx): the transaction the context carries, if any
tx(ctx) == ctx.tx

\* a statement on a cancelled context fails; on a live one the store may still fail
FailChoices(ctx) == IF ctx.cancelled THEN {TRUE} ELSE BOOLEAN

\* s.BeginROTx(ctx) is only reached without a transaction
BeginFailChoices(ctx) == IF tx(ctx) THEN {FALSE} ELSE FailChoices(ctx)

\* tx.Exec is only reached with a transaction
ExecFailChoices(ctx) == IF tx(ctx) THEN FailChoices(ctx) ELSE {FALSE}

\* s.setWithdrawals is only reached after tx.Exec succeeded
WithdrawalsFailChoices(ctx, execFails) == IF execFails THEN {FALSE} ELSE ExecFailChoices(ctx)

RECURSIVE Count(_, _)
Count(events, e) ==
    IF events = <<>> THEN 0
    ELSE (IF Head(events) = e THEN 1 ELSE 0) + Count(Tail(events), e)

\* read-only transactions left open by a call's events
OpenedBy(events) == Count(events, "BeginROTx") - Count(events, "CommitROTx")

\* the record of a call; prior is the row an upsert found under its key, for the record only
Call(op, ctx, arg, prior, r) ==
    [op |-> op, ctx |-> ctx, arg |-> arg, prior |-> prior,
     events |-> r.events, err |-> r.err, res |-> r.res]

Rows(table) == BagToSet(table)

NoRow == [t |-> "norow"]

\* the upsert statement of the call was executed
Upserted(r) == Count(r.events, "Exec") = 1 /\ r.err # "StoreFailure"

\* the row the executed upsert found under its key, if any
Prior(r, conflicting) ==
    IF Upserted(r) /\ conflicting # {} THEN CHOOSE row \in conflicting : TRUE ELSE NoRow

\* the writes explored keep the store within MaxRows rows
WithinMaxRows(genesis, chainSpec, payloads) ==
    BagCardinality(genesis) + BagCardinality(chainSpec) + BagCardinality(payloads) <= MaxRows

\* the row a QueryRow without a WHERE clause scans: some row, or none
RowsOrNone(table) == IF Rows(table) = {} THEN {NoRow} ELSE Rows(table)

\* a fixed-width byte array filled with one byte
Fill(b) == [i \in 1..HashLen |-> b]

----------------------------------------------------------------------------
(* Genesis store *)

GenesisRoots == {Fill(1), Fill(2)}

GenesisInputs ==
    {[GenesisValidatorsRoot |-> r, GenesisTime |-> tv[1], GenesisForkVersion |-> tv[2]] :
        r \in GenesisRoots,
        tv \in {<<1606824023, <<0, 0, 0, 0>>>>, <<1616508000, <<0, 0, 16, 32>>>>}}

\* INSERT INTO t_genesis with no conflict clause on a table without its unique index
UpsertGenesisAsPlainInsert(table, genesis) ==
    table (+) SetToBag({[f_validators_root |-> genesis.GenesisValidatorsRoot,
                         f_time |-> genesis.GenesisTime,
                         f_fork_version |-> genesis.GenesisForkVersion]})

\* the conflict clause without f_fork_version in its SET list
UpsertGenesisAsKeepForkVersion(table, genesis) ==
    IF \E row \in Rows(table) : row.f_validators_root = genesis.GenesisValidatorsRoot
    THEN LET old == CHOOSE row \in Rows(table) :
                        row.f_validators_root = genesis.GenesisValidatorsRoot
         IN  (table (-) SetToBag({old}))
             (+) SetToBag({[old EXCEPT !.f_time = genesis.GenesisTime]})
    ELSE table (+) SetToBag({[f_validators_root |-> genesis.GenesisValidatorsRoot,
                              f_time |-> genesis.GenesisTime,
                              f_fork_version |-> genesis.GenesisForkVersion]})

\* INSERT INTO t_genesis ... ON CONFLICT (f_validators_root) DO UPDATE SET ...
UpsertGenesis(table, genesis) ==
    IF \E row \in Rows(table) : row.f_validators_root = genesis.GenesisValidatorsRoot
    THEN LET old == CHOOSE row \in Rows(table) :
                        row.f_validators_root = genesis.GenesisValidatorsRoot
         IN  (table (-) SetToBag({old}))
             (+) SetToBag({[old EXCEPT !.f_time = genesis.GenesisTime,
                                       !.f_fork_version = genesis.GenesisForkVersion]})
    ELSE table (+) SetToBag({[f_validators_root |-> genesis.GenesisValidatorsRoot,
                              f_time |-> genesis.GenesisTime,
                              f_fork_version |-> genesis.GenesisForkVersion]})

\* SetGenesis beginning a transaction of its own when the context carries none
SetGenesisCallAsImplicitTx(ctx, genesis, execFails, table) ==
    IF execFails
        THEN [events |-> <<"Exec">>, err |-> "StoreFailure", res |-> NoValue, table |-> table]
    ELSE [events |-> <<"Exec">>, err |-> "nil", res |-> NoValue,
          table |-> UpsertGenesis(table, genesis)]

SetGenesisCall(ctx, genesis, execFails, table) ==
    IF ~tx(ctx)
        THEN [events |-> <<>>, err |-> "ErrNoTransaction", res |-> NoValue, table |-> table]
    ELSE IF execFails
        THEN [events |-> <<"Exec">>, err |-> "StoreFailure", res |-> NoValue, table |-> table]
    ELSE [events |-> <<"Exec">>, err |-> "nil", res |-> NoValue,
          table |-> UpsertGenesis(table, genesis)]

SetGenesis ==
    \E ctx \in Ctxs, genesis \in GenesisInputs :
      \E execFails \in ExecFailChoices(ctx) :
        LET r == SetGenesisCall(ctx, genesis, execFails, t_genesis)
        IN  /\ WithinMaxRows(r.table, t_chain_spec, t_block_execution_payloads)
            /\ t_genesis' = r.table
            /\ last' = Call("SetGenesis", ctx, genesis,
                           Prior(r, {row \in Rows(t_genesis) :
                               row.f_validators_root = genesis.GenesisValidatorsRoot}), r)
            /\ roOpen' = roOpen + OpenedBy(r.events)
            /\ UNCHANGED <<t_chain_spec, t_block_execution_payloads, txOpen>>
            /\ UNCHANGED codecVars

\* Genesis committing its read-only transaction only on the successful path
GenesisCallAsCommitOnSuccessOnly(ctx, beginFails, queryFails, row) ==
    IF ~tx(ctx) /\ beginFails
        THEN [events |-> <<"BeginROTxFailed">>, err |-> "failed to begin transaction",
              res |-> NoValue]
    ELSE LET begun == IF tx(ctx) THEN <<>> ELSE <<"BeginROTx">>
             deferred == IF tx(ctx) THEN <<>> ELSE <<"CommitROTx">>
         IN  IF queryFails
                 THEN [events |-> begun \o <<"QueryRow">>,
                       err |-> "StoreFailure", res |-> NoValue]
             ELSE IF row = NoRow
                 THEN [events |-> begun \o <<"QueryRow">>,
                       err |-> "ErrNoRows", res |-> NoValue]
             ELSE [events |-> begun \o <<"QueryRow">> \o deferred,
                   err |-> "nil",
                   res |-> [GenesisValidatorsRoot |-> CopyInto(HashLen, row.f_validators_root),
                            GenesisTime |-> row.f_time,
                            GenesisForkVersion |-> CopyInto(VersionLen, row.f_fork_version)]]

GenesisCall(ctx, beginFails, queryFails, row) ==
    IF ~tx(ctx) /\ beginFails
        THEN [events |-> <<"BeginROTxFailed">>, err |-> "failed to begin transaction",
              res |-> NoValue]
    ELSE LET begun == IF tx(ctx) THEN <<>> ELSE <<"BeginROTx">>
             deferred == IF tx(ctx) THEN <<>> ELSE <<"CommitROTx">>
         IN  IF queryFails
                 THEN [events |-> begun \o <<"QueryRow">> \o deferred,
                       err |-> "StoreFailure", res |-> NoValue]
             ELSE IF row = NoRow
                 THEN [events |-> begun \o <<"QueryRow">> \o deferred,
                       err |-> "ErrNoRows", res |-> NoValue]
             ELSE [events |-> begun \o <<"QueryRow">> \o deferred,
                   err |-> "nil",
                   res |-> [GenesisValidatorsRoot |-> CopyInto(HashLen, row.f_validators_root),
                            GenesisTime |-> row.f_time,
                            GenesisForkVersion |-> CopyInto(VersionLen, row.f_fork_version)]]

Genesis ==
    \E ctx \in Ctxs, row \in RowsOrNone(t_genesis) :
      \E beginFails \in BeginFailChoices(ctx), queryFails \in FailChoices(ctx) :
        LET r == GenesisCall(ctx, beginFails, queryFails, row)
        IN  /\ last' = Call("Genesis", ctx, NoValue, NoRow, r)
            /\ roOpen' = roOpen + OpenedBy(r.events)
            /\ UNCHANGED <<tables, txOpen>>
            /\ UNCHANGED codecVars

GenesisTimeCall(ctx, beginFails, queryFails, row) ==
    LET genesisResponse == GenesisCall(ctx, beginFails, queryFails, row)
    IN  IF genesisResponse.err # "nil"
            THEN [events |-> genesisResponse.events, err |-> "failed to obtain genesis",
                  res |-> NoValue]
        ELSE [events |-> genesisResponse.events, err |-> "nil",
              res |-> [GenesisTime |-> genesisResponse.res.GenesisTime]]

GenesisTime ==
    \E ctx \in Ctxs, row \in RowsOrNone(t_genesis) :
      \E beginFails \in BeginFailChoices(ctx), queryFails \in FailChoices(ctx) :
        LET r == GenesisTimeCall(ctx, beginFails, queryFails, row)
        IN  /\ last' = Call("GenesisTime", ctx, NoValue, NoRow, r)
            /\ roOpen' = roOpen + OpenedBy(r.events)
            /\ UNCHANGED <<tables, txOpen>>
            /\ UNCHANGED codecVars

----------------------------------------------------------------------------
(* Chain-spec store *)

StoreKeys == {KeyGenesisTime, KeySecondsPerSlot}

StoreValues == {UintVal(U64(12)), BytesVal(<<1, 0, 0, 0>>)}

\* INSERT INTO t_chain_spec ... ON CONFLICT (f_key) DO UPDATE SET f_value = excluded.f_value
UpsertChainSpec(table, key, dbVal) ==
    IF \E row \in Rows(table) : row.f_key = key
    THEN LET old == CHOOSE row \in Rows(table) : row.f_key = key
         IN  (table (-) SetToBag({old})) (+) SetToBag({[old EXCEPT !.f_value = dbVal]})
    ELSE table (+) SetToBag({[f_key |-> key, f_value |-> dbVal]})

SetChainSpecValueCall(ctx, key, value, execFails, table) ==
    IF ~tx(ctx)
        THEN [events |-> <<>>, err |-> "ErrNoTransaction", res |-> NoValue, table |-> table]
    ELSE LET dbVal == dbValOf(value)
         IN  IF execFails
                 THEN [events |-> <<"Exec">>, err |-> "StoreFailure", res |-> NoValue,
                       table |-> table]
             ELSE [events |-> <<"Exec">>, err |-> "nil", res |-> NoValue,
                   table |-> UpsertChainSpec(table, key, dbVal)]

SetChainSpecValue ==
    \E ctx \in Ctxs, key \in StoreKeys, value \in StoreValues :
      \E execFails \in ExecFailChoices(ctx) :
        LET r == SetChainSpecValueCall(ctx, key, value, execFails, t_chain_spec)
        IN  /\ WithinMaxRows(t_genesis, r.table, t_block_execution_payloads)
            /\ t_chain_spec' = r.table
            /\ last' = Call("SetChainSpecValue", ctx, [key |-> key, value |-> value],
                           Prior(r, {row \in Rows(t_chain_spec) : row.f_key = key}), r)
            /\ roOpen' = roOpen + OpenedBy(r.events)
            /\ UNCHANGED <<t_genesis, t_block_execution_payloads, txOpen>>
            /\ UNCHANGED codecVars

\* outcome of the query: it fails, or a row fails to scan (only if there is a row), or all is read
QueryOutcomes(ctx, table) ==
    IF ctx.cancelled THEN {"queryFail"}
    ELSE {"ok", "queryFail"} \cup (IF Rows(table) = {} THEN {} ELSE {"scanFail"})

\* the map ChainSpec builds: every stored key with its decoded value
SpecMap(table) ==
    [key \in {row.f_key : row \in Rows(table)} |->
        dbValToSpec(key, (CHOOSE row \in Rows(table) : row.f_key = key).f_value)]

\* ChainSpec reading on a read-only transaction of its own whatever the context carries
ChainSpecCallAsOwnTx(ctx, beginFails, outcome, table) ==
    IF beginFails
        THEN [events |-> <<"BeginROTxFailed">>, err |-> "failed to begin transaction",
              res |-> NoValue]
    ELSE LET begun == <<"BeginROTx">>
             deferred == <<"CommitROTx">>
         IN  IF outcome = "queryFail"
                 THEN [events |-> begun \o <<"Query">> \o deferred,
                       err |-> "StoreFailure", res |-> NoValue]
             ELSE IF outcome = "scanFail"
                 THEN [events |-> begun \o <<"Query">> \o deferred,
                       err |-> "failed to scan row", res |-> NoValue]
             ELSE [events |-> begun \o <<"Query">> \o deferred,
                   err |-> "nil", res |-> [spec |-> SpecMap(table)]]

ChainSpecCall(ctx, beginFails, outcome, table) ==
    IF ~tx(ctx) /\ beginFails
        THEN [events |-> <<"BeginROTxFailed">>, err |-> "failed to begin transaction",
              res |-> NoValue]
    ELSE LET begun == IF tx(ctx) THEN <<>> ELSE <<"BeginROTx">>
             deferred == IF tx(ctx) THEN <<>> ELSE <<"CommitROTx">>
         IN  IF outcome = "queryFail"
                 THEN [events |-> begun \o <<"Query">> \o deferred,
                       err |-> "StoreFailure", res |-> NoValue]
             ELSE IF outcome = "scanFail"
                 THEN [events |-> begun \o <<"Query">> \o deferred,
                       err |-> "failed to scan row", res |-> NoValue]
             ELSE [events |-> begun \o <<"Query">> \o deferred,
                   err |-> "nil", res |-> [spec |-> SpecMap(table)]]

ChainSpec ==
    \E ctx \in Ctxs :
      \E beginFails \in BeginFailChoices(ctx), outcome \in QueryOutcomes(ctx, t_chain_spec) :
        LET r == ChainSpecCall(ctx, beginFails, outcome, t_chain_spec)
        IN  /\ last' = Call("ChainSpec", ctx, NoValue, NoRow, r)
            /\ roOpen' = roOpen + OpenedBy(r.events)
            /\ UNCHANGED <<tables, txOpen>>
            /\ UNCHANGED codecVars

\* ChainSpecValue answering a missing key with an empty string instead of a failure
ChainSpecValueCallAsDefaultOnMissing(ctx, key, beginFails, queryFails, table) ==
    IF ~tx(ctx) /\ beginFails
        THEN [events |-> <<"BeginROTxFailed">>, err |-> "failed to begin transaction",
              res |-> NoValue]
    ELSE LET begun == IF tx(ctx) THEN <<>> ELSE <<"BeginROTx">>
             deferred == IF tx(ctx) THEN <<>> ELSE <<"CommitROTx">>
         IN  IF queryFails
                 THEN [events |-> begun \o <<"QueryRow">> \o deferred,
                       err |-> "StoreFailure", res |-> NoValue]
             ELSE IF ~\E row \in Rows(table) : row.f_key = key
                 THEN [events |-> begun \o <<"QueryRow">> \o deferred,
                       err |-> "nil", res |-> dbValToSpec(key, <<>>)]
             ELSE LET dbVal == (CHOOSE row \in Rows(table) : row.f_key = key).f_value
                  IN  [events |-> begun \o <<"QueryRow">> \o deferred,
                       err |-> "nil", res |-> dbValToSpec(key, dbVal)]

ChainSpecValueCall(ctx, key, beginFails, queryFails, table) ==
    IF ~tx(ctx) /\ beginFails
        THEN [events |-> <<"BeginROTxFailed">>, err |-> "failed to begin transaction",
              res |-> NoValue]
    ELSE LET begun == IF tx(ctx) THEN <<>> ELSE <<"BeginROTx">>
             deferred == IF tx(ctx) THEN <<>> ELSE <<"CommitROTx">>
         IN  IF queryFails
                 THEN [events |-> begun \o <<"QueryRow">> \o deferred,
                       err |-> "StoreFailure", res |-> NoValue]
             ELSE IF ~\E row \in Rows(table) : row.f_key = key
                 THEN [events |-> begun \o <<"QueryRow">> \o deferred,
                       err |-> "ErrNoRows", res |-> NoValue]
             ELSE LET dbVal == (CHOOSE row \in Rows(table) : row.f_key = key).f_value
                  IN  [events |-> begun \o <<"QueryRow">> \o deferred,
                       err |-> "nil", res |-> dbValToSpec(key, dbVal)]

ChainSpecValue ==
    \E ctx \in Ctxs, key \in StoreKeys :
      \E beginFails \in BeginFailChoices(ctx), queryFails \in FailChoices(ctx) :
        LET r == ChainSpecValueCall(ctx, key, beginFails, queryFails, t_chain_spec)
        IN  /\ last' = Call("ChainSpecValue", ctx, [key |-> key], NoRow, r)
            /\ roOpen' = roOpen + OpenedBy(r.events)
            /\ UNCHANGED <<tables, txOpen>>
            /\ UNCHANGED codecVars

----------------------------------------------------------------------------
(* Execution-payload store *)

BlockRoots == {Fill(10), Fill(11), Fill(12)}

ZeroHash == Fill(0)

\* a Go byte slice: nil, or its bytes
NilSlice == [nil |-> TRUE, b |-> <<>>]

Slice(b) == [nil |-> FALSE, b |-> b]

\* a nullable bytea column
Null == [null |-> TRUE, b |-> <<>>]

NotNull(b) == [null |-> FALSE, b |-> b]

\* 2^200 as a big.Int: limbs of arbitrary length
Pow200 == [i \in 1..26 |-> IF i = 26 THEN 1 ELSE 0]

NilPayload == [nil |-> TRUE]

PayloadA ==
    [nil |-> FALSE, BlockNumber |-> 1, BlockHash |-> Fill(1), ParentHash |-> Fill(2),
     FeeRecipient |-> Fill(3), StateRoot |-> Fill(4), ReceiptsRoot |-> Fill(5),
     LogsBloom |-> Fill(6), PrevRandao |-> Fill(7), GasLimit |-> 30, GasUsed |-> 21,
     BaseFeePerGas |-> Pow200, Timestamp |-> 1000, ExtraData |-> Slice(<<1, 2>>),
     ExcessDataGas |-> 5]

PayloadB ==
    [nil |-> FALSE, BlockNumber |-> 2, BlockHash |-> Fill(21), ParentHash |-> Fill(22),
     FeeRecipient |-> Fill(23), StateRoot |-> Fill(24), ReceiptsRoot |-> Fill(25),
     LogsBloom |-> Fill(26), PrevRandao |-> Fill(27), GasLimit |-> 31, GasUsed |-> 22,
     BaseFeePerGas |-> <<7>>, Timestamp |-> 2000, ExtraData |-> Slice(<<>>),
     ExcessDataGas |-> 6]

\* a payload without extra data
PayloadC == [PayloadB EXCEPT !.ExtraData = NilSlice]

\* the transitional payload: every field set but the block hash
PayloadZeroHash == [PayloadA EXCEPT !.BlockHash = ZeroHash]

Payloads == {NilPayload, PayloadZeroHash, PayloadA, PayloadB, PayloadC}

NilBlock == [nil |-> TRUE]

Blocks ==
    {NilBlock} \cup {[nil |-> FALSE, Root |-> root, ExecutionPayload |-> payload] :
                        root \in BlockRoots, payload \in Payloads}

\* the base fee handed to the store as a 64-bit integer
NewFromBigIntAsInt64(value, exp) ==
    [value |-> SubSeq(value, 1, IF Len(value) < NumLimbs THEN Len(value) ELSE NumLimbs),
     exp |-> exp]

\* decimal.NewFromBigInt(value, exp) and Decimal.BigInt()
NewFromBigInt(value, exp) == [value |-> value, exp |-> exp]

RECURSIVE DecimalBigInt(_)
DecimalBigInt(d) ==
    IF d.exp <= 0 THEN d.value
    ELSE DecimalBigInt([value |-> mulAddLimbs(d.value, 10, 0), exp |-> d.exp - 1])

\* the parameters $1..$15 of the statement
PayloadRow(block) ==
    LET payload == block.ExecutionPayload
        extraData == IF Len(payload.ExtraData.b) > 0 THEN NotNull(payload.ExtraData.b) ELSE Null
    IN  [f_block_root |-> block.Root,
         f_block_number |-> payload.BlockNumber,
         f_block_hash |-> payload.BlockHash,
         f_parent_hash |-> payload.ParentHash,
         f_fee_recipient |-> payload.FeeRecipient,
         f_state_root |-> payload.StateRoot,
         f_receipts_root |-> payload.ReceiptsRoot,
         f_logs_bloom |-> payload.LogsBloom,
         f_prev_randao |-> payload.PrevRandao,
         f_gas_limit |-> payload.GasLimit,
         f_gas_used |-> payload.GasUsed,
         f_base_fee_per_gas |-> NewFromBigInt(payload.BaseFeePerGas, 0),
         f_timestamp |-> payload.Timestamp,
         f_extra_data |-> extraData,
         f_excess_data_gas |-> payload.ExcessDataGas]

\* the conflict clause without f_extra_data in its SET list
UpsertPayloadAsKeepExtraData(table, excluded) ==
    IF \E row \in Rows(table) : row.f_block_root = excluded.f_block_root
    THEN LET old == CHOOSE row \in Rows(table) : row.f_block_root = excluded.f_block_root
         IN  (table (-) SetToBag({old}))
             (+) SetToBag({[old EXCEPT !.f_block_number = excluded.f_block_number,
                                      !.f_block_hash = excluded.f_block_hash,
                                      !.f_parent_hash = excluded.f_parent_hash,
                                      !.f_fee_recipient = excluded.f_fee_recipient,
                                      !.f_state_root = excluded.f_state_root,
                                      !.f_receipts_root = excluded.f_receipts_root,
                                      !.f_logs_bloom = excluded.f_logs_bloom,
                                      !.f_prev_randao = excluded.f_prev_randao,
                                      !.f_gas_limit = excluded.f_gas_limit,
                                      !.f_gas_used = excluded.f_gas_used,
                                      !.f_base_fee_per_gas = excluded.f_base_fee_per_gas,
                                      !.f_timestamp = excluded.f_timestamp,
                                      !.f_excess_data_gas = excluded.f_excess_data_gas]})
    ELSE table (+) SetToBag({excluded})

\* INSERT INTO t_block_execution_payloads ... ON CONFLICT (f_block_root) DO UPDATE SET ...
UpsertPayload(table, excluded) ==
    IF \E row \in Rows(table) : row.f_block_root = excluded.f_block_root
    THEN LET old == CHOOSE row \in Rows(table) : row.f_block_root = excluded.f_block_root
         IN  (table (-) SetToBag({old}))
             (+) SetToBag({[old EXCEPT !.f_block_number = excluded.f_block_number,
                                      !.f_block_hash = excluded.f_block_hash,
                                      !.f_parent_hash = excluded.f_parent_hash,
                                      !.f_fee_recipient = excluded.f_fee_recipient,
                                      !.f_state_root = excluded.f_state_root,
                                      !.f_receipts_root = excluded.f_receipts_root,
                                      !.f_logs_bloom = excluded.f_logs_bloom,
                                      !.f_prev_randao = excluded.f_prev_randao,
                                      !.f_gas_limit = excluded.f_gas_limit,
                                      !.f_gas_used = excluded.f_gas_used,
                                      !.f_base_fee_per_gas = excluded.f_base_fee_per_gas,
                                      !.f_timestamp = excluded.f_timestamp,
                                      !.f_extra_data = excluded.f_extra_data,
                                      !.f_excess_data_gas = excluded.f_excess_data_gas]})
    ELSE table (+) SetToBag({excluded})

\* setExecutionPayload without the guard on the all-zero block hash
setExecutionPayloadCallAsStoreZeroHash(ctx, block, execFails, withdrawalsFail, table) ==
    IF ~tx(ctx)
        THEN [events |-> <<>>, err |-> "ErrNoTransaction", res |-> NoValue, table |-> table]
    ELSE IF block.nil
        THEN [events |-> <<>>, err |-> "block missing", res |-> NoValue, table |-> table]
    ELSE IF block.ExecutionPayload.nil
        THEN [events |-> <<>>, err |-> "nil", res |-> NoValue, table |-> table]
    ELSE IF execFails
        THEN [events |-> <<"Exec">>, err |-> "StoreFailure", res |-> NoValue, table |-> table]
    ELSE IF withdrawalsFail
        THEN [events |-> <<"Exec", "setWithdrawals">>, err |-> "failed to set withdrawals",
              res |-> NoValue, table |-> UpsertPayload(table, PayloadRow(block))]
    ELSE [events |-> <<"Exec", "setWithdrawals">>, err |-> "nil", res |-> NoValue,
          table |-> UpsertPayload(table, PayloadRow(block))]

\* setExecutionPayload taking its row back when the withdrawals cannot be set
setExecutionPayloadCallAsUndoOnWithdrawalsFailure(ctx, block, execFails, withdrawalsFail, table) ==
    IF ~tx(ctx)
        THEN [events |-> <<>>, err |-> "ErrNoTransaction", res |-> NoValue, table |-> table]
    ELSE IF block.nil
        THEN [events |-> <<>>, err |-> "block missing", res |-> NoValue, table |-> table]
    ELSE IF block.ExecutionPayload.nil
        THEN [events |-> <<>>, err |-> "nil", res |-> NoValue, table |-> table]
    ELSE IF block.ExecutionPayload.BlockHash = ZeroHash
        THEN [events |-> <<>>, err |-> "nil", res |-> NoValue, table |-> table]
    ELSE IF execFails
        THEN [events |-> <<"Exec">>, err |-> "StoreFailure", res |-> NoValue, table |-> table]
    ELSE IF withdrawalsFail
        THEN [events |-> <<"Exec", "setWithdrawals">>, err |-> "failed to set withdrawals",
              res |-> NoValue, table |-> table]
    ELSE [events |-> <<"Exec", "setWithdrawals">>, err |-> "nil", res |-> NoValue,
          table |-> UpsertPayload(table, PayloadRow(block))]

\* setExecutionPayload looking at the payload before it looks for the transaction
setExecutionPayloadCallAsPayloadCheckFirst(ctx, block, execFails, withdrawalsFail, table) ==
    IF ~block.nil /\ block.ExecutionPayload.nil
        THEN [events |-> <<>>, err |-> "nil", res |-> NoValue, table |-> table]
    ELSE IF ~tx(ctx)
        THEN [events |-> <<>>, err |-> "ErrNoTransaction", res |-> NoValue, table |-> table]
    ELSE IF block.nil
        THEN [events |-> <<>>, err |-> "block missing", res |-> NoValue, table |-> table]
    ELSE IF block.ExecutionPayload.BlockHash = ZeroHash
        THEN [events |-> <<>>, err |-> "nil", res |-> NoValue, table |-> table]
    ELSE IF execFails
        THEN [events |-> <<"Exec">>, err |-> "StoreFailure", res |-> NoValue, table |-> table]
    ELSE IF withdrawalsFail
        THEN [events |-> <<"Exec", "setWithdrawals">>, err |-> "failed to set withdrawals",
              res |-> NoValue, table |-> UpsertPayload(table, PayloadRow(block))]
    ELSE [events |-> <<"Exec", "setWithdrawals">>, err |-> "nil", res |-> NoValue,
          table |-> UpsertPayload(table, PayloadRow(block))]

setExecutionPayloadCall(ctx, block, execFails, withdrawalsFail, table) ==
    IF ~tx(ctx)
        THEN [events |-> <<>>, err |-> "ErrNoTransaction", res |-> NoValue, table |-> table]
    ELSE IF block.nil
        THEN [events |-> <<>>, err |-> "block missing", res |-> NoValue, table |-> table]
    ELSE IF block.ExecutionPayload.nil
        THEN [events |-> <<>>, err |-> "nil", res |-> NoValue, table |-> table]
    ELSE IF block.ExecutionPayload.BlockHash = ZeroHash
        THEN [events |-> <<>>, err |-> "nil", res |-> NoValue, table |-> table]
    ELSE IF execFails
        THEN [events |-> <<"Exec">>, err |-> "StoreFailure", res |-> NoValue, table |-> table]
    ELSE IF withdrawalsFail
        THEN [events |-> <<"Exec", "setWithdrawals">>, err |-> "failed to set withdrawals",
              res |-> NoValue, table |-> UpsertPayload(table, PayloadRow(block))]
    ELSE [events |-> <<"Exec", "setWithdrawals">>, err |-> "nil", res |-> NoValue,
          table |-> UpsertPayload(table, PayloadRow(block))]

setExecutionPayload ==
    \E ctx \in Ctxs, block \in Blocks :
      \E execFails \in ExecFailChoices(ctx) :
       \E withdrawalsFail \in WithdrawalsFailChoices(ctx, execFails) :
        LET r == setExecutionPayloadCall(ctx, block, execFails, withdrawalsFail,
                                         t_block_execution_payloads)
        IN  /\ WithinMaxRows(t_genesis, t_chain_spec, r.table)
            /\ t_block_execution_payloads' = r.table
            /\ last' = Call("setExecutionPayload", ctx, block,
                           Prior(r, {row \in Rows(t_block_execution_payloads) :
                               row.f_block_root = block.Root}), r)
            /\ roOpen' = roOpen + OpenedBy(r.events)
            /\ UNCHANGED <<t_genesis, t_chain_spec, txOpen>>
            /\ UNCHANGED codecVars

\* what Scan and the copies make of a row
PayloadOfRow(row) ==
    [nil |-> FALSE,
     BlockNumber |-> row.f_block_number,
     BlockHash |-> CopyInto(HashLen, row.f_block_hash),
     ParentHash |-> CopyInto(HashLen, row.f_parent_hash),
     FeeRecipient |-> CopyInto(HashLen, row.f_fee_recipient),
     StateRoot |-> CopyInto(HashLen, row.f_state_root),
     ReceiptsRoot |-> CopyInto(HashLen, row.f_receipts_root),
     LogsBloom |-> CopyInto(HashLen, row.f_logs_bloom),
     PrevRandao |-> CopyInto(HashLen, row.f_prev_randao),
     GasLimit |-> row.f_gas_limit,
     GasUsed |-> row.f_gas_used,
     BaseFeePerGas |-> DecimalBigInt(row.f_base_fee_per_gas),
     Timestamp |-> row.f_timestamp,
     ExtraData |-> IF row.f_extra_data.null THEN NilSlice ELSE Slice(row.f_extra_data.b),
     ExcessDataGas |-> row.f_excess_data_gas]

executionPayloadCall(root, queryFails, table) ==
    IF queryFails
        THEN [events |-> <<"QueryRow">>, err |-> "StoreFailure", res |-> NoValue]
    ELSE IF ~\E row \in Rows(table) : row.f_block_root = root
        THEN [events |-> <<"QueryRow">>, err |-> "nil", res |-> NilPayload]
    ELSE [events |-> <<"QueryRow">>, err |-> "nil",
          res |-> PayloadOfRow(CHOOSE row \in Rows(table) : row.f_block_root = root)]

\* the caller hands in its transaction
executionPayload ==
    \E ctx \in Ctxs, root \in BlockRoots :
      \E queryFails \in FailChoices(ctx) :
        LET r == executionPayloadCall(root, queryFails, t_block_execution_payloads)
        IN  /\ tx(ctx)
            /\ last' = Call("executionPayload", ctx, [root |-> root], NoRow, r)
            /\ roOpen' = roOpen + OpenedBy(r.events)
            /\ UNCHANGED <<tables, txOpen>>
            /\ UNCHANGED codecVars

\* the requests: lists of roots without and with a repeated root
RootLists ==
    {<<>>, <<Fill(10)>>, <<Fill(11)>>, <<Fill(10), Fill(10)>>, <<Fill(12), Fill(10)>>,
     <<Fill(10), Fill(11), Fill(12)>>}

\* executionPayloads with an entry, holding no payload, for each requested root without a row
executionPayloadsCallAsNilForMissing(roots, outcome, table) ==
    LET broots == {roots[i] : i \in 1..Len(roots)}
        found == {row \in Rows(table) : row.f_block_root \in broots}
    IN  IF outcome = "queryFail"
            THEN [events |-> <<"Query">>, err |-> "StoreFailure", res |-> NoValue]
        ELSE IF outcome = "scanFail" /\ found # {}
            THEN [events |-> <<"Query">>, err |-> "failed to scan row", res |-> NoValue]
        ELSE [events |-> <<"Query">>, err |-> "nil",
              res |-> [payloads |->
                  [key \in broots |->
                      IF \E row \in found : CopyInto(HashLen, row.f_block_root) = key
                      THEN PayloadOfRow(CHOOSE row \in found :
                                            CopyInto(HashLen, row.f_block_root) = key)
                      ELSE NilPayload]]]

executionPayloadsCall(roots, outcome, table) ==
    LET broots == {roots[i] : i \in 1..Len(roots)}
        found == {row \in Rows(table) : row.f_block_root \in broots}
    IN  IF outcome = "queryFail"
            THEN [events |-> <<"Query">>, err |-> "StoreFailure", res |-> NoValue]
        ELSE IF outcome = "scanFail" /\ found # {}
            THEN [events |-> <<"Query">>, err |-> "failed to scan row", res |-> NoValue]
        ELSE [events |-> <<"Query">>, err |-> "nil",
              res |-> [payloads |->
                  [key \in {CopyInto(HashLen, row.f_block_root) : row \in found} |->
                      PayloadOfRow(CHOOSE row \in found :
                                       CopyInto(HashLen, row.f_block_root) = key)]]]

executionPayloads ==
    \E ctx \in Ctxs, roots \in RootLists :
      \E outcome \in QueryOutcomes(ctx, t_block_execution_payloads) :
        LET r == executionPayloadsCall(roots, outcome, t_block_execution_payloads)
        IN  /\ tx(ctx)
            /\ last' = Call("executionPayloads", ctx, [roots |-> roots], NoRow, r)
            /\ roOpen' = roOpen + OpenedBy(r.events)
            /\ UNCHANGED <<tables, txOpen>>
            /\ UNCHANGED codecVars

----------------------------------------------------------------------------
(* The caller's transaction, and the specification of the store *)

BeginTx ==
    /\ ~txOpen
    /\ txOpen' = TRUE
    /\ UNCHANGED <<tables, roOpen, last>>
    /\ UNCHANGED codecVars

CommitTx ==
    /\ txOpen
    /\ txOpen' = FALSE
    /\ UNCHANGED <<tables, roOpen, last>>
    /\ UNCHANGED codecVars

Init ==
    /\ InitStore
    /\ cpc = "start"
    /\ ckey = KeyGenesisTime
    /\ cvalue = NoValue
    /\ cdbVal = <<>>
    /\ cspec = NoValue

Next ==
    \/ BeginTx
    \/ CommitTx
    \/ SetGenesis
    \/ Genesis
    \/ GenesisTime
    \/ SetChainSpecValue
    \/ ChainSpec
    \/ ChainSpecValue
    \/ setExecutionPayload
    \/ executionPayload
    \/ executionPayloads

Spec == Init /\ [][Next]_vars

----------------------------------------------------------------------------
(* Claims about the codec, checked under SpecCodec *)

\* the rule list of the specification: rule i looks at the key or at the value ...
RuleApplies(i, key, val) ==
    CASE i = 1 -> HasPrefix(key, DomainPrefix)
      [] i = 2 -> HasSuffix(key, ForkVersionSuffix)
      [] i = 3 -> HasPrefix(val, HexPrefix)
      [] i = 4 -> HasSuffix(key, TimeSuffix)
      [] i = 5 -> HasPrefix(key, SecondsPerPrefix) \/ HasSuffix(key, DelaySuffix)
      [] i = 6 -> val = <<"0">>
      [] OTHER -> TRUE

\* ... and needs a parse to succeed (rules 4, 5 and 7: with a non-zero result)
RuleParses(i, val) ==
    CASE i \in {1, 2, 3} -> ~DecodeString(TrimPrefix(val, HexPrefix)).err
      [] i = 4 -> ~ParseInt(val).err /\ ~IsZero(ParseInt(val).val)
      [] i \in {5, 7} -> ~ParseUint(val).err /\ ~IsZero(ParseUint(val).val)
      [] OTHER -> TRUE

RuleMatches(i, key, val) == RuleApplies(i, key, val) /\ RuleParses(i, val)

RuleResult(i, val) ==
    CASE i = 1 -> DomainTypeVal(CopyInto(DomainTypeLen, DecodeString(TrimPrefix(val, HexPrefix)).bytes))
      [] i = 2 -> VersionVal(CopyInto(VersionLen, DecodeString(TrimPrefix(val, HexPrefix)).bytes))
      [] i = 3 -> BytesVal(DecodeString(TrimPrefix(val, HexPrefix)).bytes)
      [] i = 4 -> TimeVal(ParseInt(val).val, 0)
      [] i = 5 -> DurationVal(MulSecond(ParseUint(val).val))
      [] i = 6 -> UintVal(ZeroLimbs)
      [] i = 7 -> UintVal(ParseUint(val).val)
      [] OTHER -> StringVal(val)

\* the result of the first rule from rule k on that matches
RulesFrom(k, key, val) ==
    LET i == CHOOSE i \in k..8 : RuleMatches(i, key, val)
                                 /\ \A j \in k..(i - 1) : ~RuleMatches(j, key, val)
    IN  RuleResult(i, val)

\* the type class the key's name selects
KeyClass(key) ==
    IF HasPrefix(key, DomainPrefix) THEN "DomainType"
    ELSE IF HasSuffix(key, ForkVersionSuffix) THEN "Version"
    ELSE IF HasSuffix(key, TimeSuffix) THEN "Time"
    ELSE IF HasPrefix(key, SecondsPerPrefix) \/ HasSuffix(key, DelaySuffix) THEN "Duration"
    ELSE "plain"

WholeSeconds(ns) == MulSecond(DurationSeconds(ns)) = ns

\* the representable, non-ambiguous range of each type class: whole-second non-zero
\* timestamps, whole-second positive durations, byte strings that have a hex text,
\* opaque strings that are not the text of a byte string or of an integer
InRange(v) ==
    CASE v.t = "Duration" -> ~IsZero(v.ns) /\ ~IsNeg(v.ns) /\ WholeSeconds(v.ns)
      [] v.t = "Time" -> ~IsZero(v.sec) /\ v.nsec = 0
      [] v.t = "[]byte" -> v.b # <<>>
      [] v.t = "string" -> /\ ParseUint(v.s).err
                           /\ ~(HasPrefix(v.s, HexPrefix)
                                /\ ~DecodeString(TrimPrefix(v.s, HexPrefix)).err)
      [] OTHER -> TRUE

\* the key's name selects the value's class
KeySelects(key, v) ==
    CASE v.t = "DomainType" -> KeyClass(key) = "DomainType"
      [] v.t = "Version" -> KeyClass(key) = "Version"
      [] v.t = "[]byte" -> KeyClass(key) \notin {"DomainType", "Version"}
      [] v.t = "Time" -> KeyClass(key) = "Time"
      [] v.t = "Duration" -> KeyClass(key) = "Duration"
      [] OTHER -> KeyClass(key) = "plain"

\* equal values of one type class (fixed-width and variable byte strings are one class)
ByteClasses == {"DomainType", "Version", "[]byte"}

SameValue(a, b) ==
    IF a.t \in ByteClasses /\ b.t \in ByteClasses THEN a.b = b.b ELSE a = b

\* C1 as stated: for every key and every value in its class's range, decoding the
\* string stored for (key, value) yields a value equal to the original value.
C1_RoundTripEveryKey ==
    (cpc = "decoded" /\ InRange(cvalue)) => SameValue(cspec, cvalue)

\* C1 amended: the round trip holds for a value in its class's range when the key's
\* name selects the value's class: a domain type under a DOMAIN_ key, a version
\* under a _FORK_VERSION key without that prefix, a byte string under a key with
\* neither, a timestamp under a _TIME key with neither, a duration under a
\* SECONDS_PER_ or _DELAY key with none of these, an unsigned integer or an opaque
\* string under a key with none of the five patterns.
C1_RoundTripSelectedKey ==
    (cpc = "decoded" /\ InRange(cvalue) /\ KeySelects(ckey, cvalue)) => cspec = cvalue

C1_Witness ==
    /\ cpc = "decoded"
    /\ ckey = KeySecondsPerSlot
    /\ cvalue = DurationVal(MulSecond(U64(12)))
    /\ cdbVal = <<"1", "2">>
    /\ cspec = cvalue

\* C2: dbValToSpec returns what the first matching rule of the ordered rule list
\* (domain, fork version, hex, time, duration, zero, integer, raw string) returns,
\* also for keys that satisfy several rules at once.
C2_FirstMatchingRule ==
    cpc = "decoded" => cspec = RulesFrom(1, ckey, cdbVal)

C2_Witness ==
    /\ cpc = "decoded"
    /\ ckey = KeyDomainForkVersion
    /\ RuleMatches(1, ckey, cdbVal) /\ RuleMatches(2, ckey, cdbVal)
    /\ cspec.t = "DomainType"

\* C3: dbValToSpec always returns a value of one of the seven classes; a rule whose
\* parse fails hands over to the rules after it, and when no rule succeeds the raw
\* string comes back unchanged.
C3_Total ==
    cpc = "decoded" =>
        /\ cspec.t \in {"DomainType", "Version", "[]byte", "Time", "Duration", "uint64", "string"}
        /\ \A i \in 1..7 :
               (/\ RuleApplies(i, ckey, cdbVal)
                /\ ~RuleParses(i, cdbVal)
                /\ \A j \in 1..(i - 1) : ~RuleMatches(j, ckey, cdbVal))
               => cspec = RulesFrom(i + 1, ckey, cdbVal)
        /\ (\A i \in 1..7 : ~RuleMatches(i, ckey, cdbVal)) => cspec = StringVal(cdbVal)

C3_Witness ==
    /\ cpc = "decoded"
    /\ ckey = KeyDomainBeaconAttester
    /\ DecodeString(TrimPrefix(cdbVal, HexPrefix)).err
    /\ cspec = StringVal(cdbVal)

\* C4: a stored "0" under a _TIME, SECONDS_PER_ or _DELAY key decodes to the unsigned
\* integer 0, and dbValToSpec never returns a timestamp of Unix second 0 nor a
\* duration of 0 seconds.
C4_ZeroFallthrough ==
    cpc = "decoded" =>
        /\ (KeyClass(ckey) \in {"Time", "Duration"} /\ cdbVal = <<"0">>)
               => cspec = UintVal(ZeroLimbs)
        /\ ~(cspec.t = "Time" /\ IsZero(cspec.sec))
        /\ ~(cspec.t = "Duration" /\ IsZero(cspec.ns))

----------------------------------------------------------------------------
(* Claims about the store, checked under Spec *)

WriteOps == {"SetGenesis", "SetChainSpecValue", "setExecutionPayload"}

ReadOps == {"Genesis", "ChainSpec", "ChainSpecValue"}

\* C5: a write entry point called without an active transaction returns the
\* no-transaction error, begins no transaction, issues no statement and leaves the
\* three tables as they were.
C5_WritesNeverImplicit ==
    [][(last'.op \in WriteOps /\ ~last'.ctx.tx)
           => /\ last'.err = "ErrNoTransaction"
              /\ last'.events = <<>>
              /\ roOpen' = roOpen
              /\ tables' = tables]_vars

C5_Witness ==
    /\ last.op = "setExecutionPayload"
    /\ ~last.ctx.tx /\ ~last.ctx.cancelled
    /\ txOpen
    /\ ~last.arg.nil /\ last.arg.ExecutionPayload = PayloadA
    /\ last.err = "ErrNoTransaction"
    /\ t_block_execution_payloads = EmptyBag

\* C6: a read entry point called without an active transaction and able to begin a
\* read-only one begins it, queries, and commits it exactly once as its last step,
\* whatever the read's outcome; no read-only transaction is open once a call has returned.
C6_ReadOnlyTxReleased ==
    /\ roOpen = 0
    /\ (last.op \in ReadOps /\ ~last.ctx.tx) =>
           IF last.err = "failed to begin transaction"
           THEN last.events = <<"BeginROTxFailed">>
           ELSE /\ Len(last.events) = 3
                /\ last.events[1] = "BeginROTx"
                /\ last.events[2] \in {"Query", "QueryRow"}
                /\ last.events[3] = "CommitROTx"

C6_Witness ==
    /\ last.op = "Genesis"
    /\ ~last.ctx.tx
    /\ last.err = "ErrNoRows"
    /\ last.events = <<"BeginROTx", "QueryRow", "CommitROTx">>
    /\ roOpen = 0

\* a call of setExecutionPayload, inside a transaction, for a block without a payload
\* or with the all-zero block hash
SkipCall(c) ==
    /\ c.op = "setExecutionPayload"
    /\ c.ctx.tx
    /\ ~c.arg.nil
    /\ (c.arg.ExecutionPayload.nil \/ c.arg.ExecutionPayload.BlockHash = ZeroHash)

RowsFor(table, root) == {row \in Rows(table) : row.f_block_root = root}

\* a lookup of root that follows the call c and meets no store failure
LookupAfter(c, next) ==
    /\ next.op = "executionPayload"
    /\ next.arg.root = c.arg.Root
    /\ next.err # "StoreFailure"

\* C7 as stated: after setExecutionPayload for a block with a nil payload or an
\* all-zero block hash there is no row for that block root and no error, and a
\* following lookup for that root returns (nil, no error), whatever went before.
C7_SkipLeavesNoRow ==
    [][/\ SkipCall(last') => (last'.err = "nil" /\ RowsFor(t_block_execution_payloads', last'.arg.Root) = {})
       /\ (SkipCall(last) /\ LookupAfter(last, last'))
              => (last'.err = "nil" /\ last'.res = NilPayload)]_vars

\* C7 amended: inside a transaction such a call stores nothing, leaves the table as
\* it was and returns no error; a following lookup for that root returns (nil, no
\* error) if no row was stored for the root earlier, and that earlier row otherwise.
C7_SkipLeavesTableUnchanged ==
    [][/\ SkipCall(last') => /\ last'.err = "nil"
                             /\ last'.events = <<>>
                             /\ tables' = tables
       /\ (SkipCall(last) /\ LookupAfter(last, last'))
              => /\ last'.err = "nil"
                 /\ last'.res = IF RowsFor(t_block_execution_payloads, last.arg.Root) = {} THEN NilPayload
                                ELSE PayloadOfRow(CHOOSE row \in RowsFor(t_block_execution_payloads, last.arg.Root) : TRUE)]_vars

C7_Witness ==
    /\ SkipCall(last)
    /\ last.arg.ExecutionPayload = PayloadZeroHash
    /\ last.err = "nil"
    /\ RowsFor(t_block_execution_payloads, last.arg.Root) = {PayloadRow([last.arg EXCEPT !.ExecutionPayload = PayloadB])}

\* C8: no row of the execution-payload table has an all-zero block hash.
C8_NoZeroHashRow ==
    \A row \in Rows(t_block_execution_payloads) : row.f_block_hash # ZeroHash

C8_Witness ==
    /\ SkipCall(last)
    /\ last.arg.ExecutionPayload = PayloadZeroHash
    /\ BagCardinality(t_block_execution_payloads) = 2

\* the table, the key and the row of a write call
TableOf(op, all) ==
    CASE op = "SetGenesis" -> all[1]
      [] op = "SetChainSpecValue" -> all[2]
      [] op = "setExecutionPayload" -> all[3]

KeyOfRow(c, row) ==
    CASE c.op = "SetGenesis" -> row.f_validators_root
      [] c.op = "SetChainSpecValue" -> row.f_key
      [] c.op = "setExecutionPayload" -> row.f_block_root

RowOfCall(c) ==
    CASE c.op = "SetGenesis" ->
             [f_validators_root |-> c.arg.GenesisValidatorsRoot,
              f_time |-> c.arg.GenesisTime,
              f_fork_version |-> c.arg.GenesisForkVersion]
      [] c.op = "SetChainSpecValue" -> [f_key |-> c.arg.key, f_value |-> dbValOf(c.arg.value)]
      [] c.op = "setExecutionPayload" -> PayloadRow(c.arg)

UpsertCall(c) == c.op \in WriteOps /\ Upserted(c)

\* C9: once a Set's upsert has run, the table holds exactly one row for its key, that
\* row carries the new values in every column, and the rows under other keys and the
\* other tables are as they were.
C9_UpsertOverwrites ==
    [][UpsertCall(last') =>
           LET c == last'
               new == RowOfCall(c)
               key == KeyOfRow(c, new)
               before == TableOf(c.op, tables)
               after == TableOf(c.op, tables')
           IN  /\ {row \in Rows(after) : KeyOfRow(c, row) = key} = {new}
               /\ CopiesIn(new, after) = 1
               /\ \A row \in Rows(before) \cup Rows(after) :
                      KeyOfRow(c, row) # key => CopiesIn(row, after) = CopiesIn(row, before)
               /\ \A op \in WriteOps \ {c.op} : TableOf(op, tables') = TableOf(op, tables)]_vars

C9_Witness ==
    /\ last.op = "setExecutionPayload"
    /\ Upserted(last)
    /\ last.arg.ExecutionPayload = PayloadB
    /\ last.prior = PayloadRow([last.arg EXCEPT !.ExecutionPayload = PayloadA])
    /\ BagCardinality(t_block_execution_payloads) = 2

\* a write that succeeded inside a transaction
Applied(c) == c.op \in WriteOps /\ c.ctx.tx /\ c.err = "nil"

\* C10: a Set applied again with the same input, right after it succeeded inside a
\* transaction, leaves the three tables as the first application left them.
C10_UpsertIdempotent ==
    [][(Applied(last) /\ Applied(last') /\ last'.op = last.op /\ last'.arg = last.arg)
           => tables' = tables]_vars

C10_Witness ==
    /\ last.op = "SetGenesis"
    /\ Applied(last)
    /\ Upserted(last)
    /\ last.prior = RowOfCall(last)
    /\ BagCardinality(t_genesis) = 1

----------------------------------------------------------------------------
(* Claims about what is read back *)

\* a setExecutionPayload call that stored its row and succeeded
Stored(c) == c.op = "setExecutionPayload" /\ Upserted(c) /\ c.err = "nil"

\* the call next looks up the root of c, alone or in a list, and meets no failure
Fetches(c, next) ==
    /\ next.err = "nil"
    /\ \/ next.op = "executionPayload" /\ next.arg.root = c.arg.Root
       \/ /\ next.op = "executionPayloads"
          /\ \E i \in 1..Len(next.arg.roots) : next.arg.roots[i] = c.arg.Root

\* the payload next returned for the root of c
Fetched(c, next) ==
    IF next.op = "executionPayload" THEN next.res
    ELSE IF c.arg.Root \in DOMAIN next.res.payloads THEN next.res.payloads[c.arg.Root]
    ELSE NilPayload

C12_ExtraDataRoundTrip ==
    [][(Stored(last) /\ Fetches(last, last'))
           => /\ ~Fetched(last, last').nil
              /\ Fetched(last, last').ExtraData = last.arg.ExecutionPayload.ExtraData]_vars

\* the requested roots of a batched fetch, and their stored rows
Requested(c) == {c.arg.roots[i] : i \in 1..Len(c.arg.roots)}

StoredFor(c) == {row \in Rows(t_block_execution_payloads) : row.f_block_root \in Requested(c)}

\* C13: executionPayloads returns a map whose keys are exactly the requested roots
\* that have a row, each with its stored record; a requested root without a row is
\* not a key, and causes no failure: a failure is a failure of the query or of the
\* scan of a row that exists.
C13_BatchedFetch ==
    last.op = "executionPayloads" =>
        /\ last.err \in {"nil", "StoreFailure", "failed to scan row"}
        /\ last.err = "failed to scan row" => StoredFor(last) # {}
        /\ last.err = "nil" =>
               /\ DOMAIN last.res.payloads = {row.f_block_root : row \in StoredFor(last)}
               /\ DOMAIN last.res.payloads \subseteq Requested(last)
               /\ \A row \in StoredFor(last) :
                      /\ last.res.payloads[row.f_block_root] = PayloadOfRow(row)
                      /\ ~last.res.payloads[row.f_block_root].nil

C13_Witness ==
    /\ last.op = "executionPayloads"
    /\ last.err = "nil"
    /\ last.arg.roots = <<Fill(10), Fill(11), Fill(12)>>
    /\ {row.f_block_root : row \in Rows(t_block_execution_payloads)} = {Fill(10), Fill(12)}
    /\ DOMAIN last.res.payloads = {Fill(10), Fill(12)}

\* the failures a read can meet before it learns whether there is a row
ReadFailures == {"failed to begin transaction", "StoreFailure"}

\* C14: Genesis on an empty table and ChainSpecValue for a key without a row fail,
\* with not-found unless the store itself failed, and return no value; GenesisTime
\* passes the failure on; executionPayload for a root without a row returns (nil, no
\* error), or the failure of the store, never not-found.
C14_RequiredVersusOptional ==
    /\ (last.op = "Genesis" /\ t_genesis = EmptyBag)
           => last.err \in {"ErrNoRows"} \cup ReadFailures /\ last.res = NoValue
    /\ (last.op = "GenesisTime" /\ t_genesis = EmptyBag)
           => last.err = "failed to obtain genesis" /\ last.res = NoValue
    /\ (last.op = "ChainSpecValue" /\ ~\E row \in Rows(t_chain_spec) : row.f_key = last.arg.key)
           => last.err \in {"ErrNoRows"} \cup ReadFailures /\ last.res = NoValue
    /\ (last.op = "executionPayload"
          /\ ~\E row \in Rows(t_block_execution_payloads) : row.f_block_root = last.arg.root)
           => \/ last.err = "nil" /\ last.res = NilPayload
              \/ last.err = "StoreFailure" /\ last.res = NoValue

C14_Witness ==
    /\ last.op = "ChainSpecValue"
    /\ last.arg.key = KeySecondsPerSlot
    /\ last.err = "ErrNoRows"
    /\ {row.f_key : row \in Rows(t_chain_spec)} = {KeyGenesisTime}
    /\ BagCardinality(t_block_execution_payloads) = 1

\* the step is the return of a call: BeginTx and CommitTx leave the record of the
\* last call as it is
Returns == last' # last

\* C15: setExecutionPayload calls the withdrawals collaborator once, right after an
\* upsert that succeeded, and not otherwise; when the collaborator fails the call
\* fails with the wrapped failure, the upserted row is in the table and the caller's
\* transaction is still open.
C15_WithdrawalsAfterUpsert ==
    [][(Returns /\ last'.op = "setExecutionPayload") =>
           /\ Count(last'.events, "setWithdrawals") = (IF Upserted(last') THEN 1 ELSE 0)
           /\ Upserted(last') => last'.events = <<"Exec", "setWithdrawals">>
           /\ last'.err = "StoreFailure" => last'.events = <<"Exec">> /\ tables' = tables
           /\ SkipCall(last') => last'.events = <<>>
           /\ last'.err = "failed to set withdrawals" =>
                  /\ Upserted(last')
                  /\ CopiesIn(RowOfCall(last'), t_block_execution_payloads') = 1
                  /\ txOpen /\ txOpen']_vars

C15_Witness ==
    /\ last.op = "setExecutionPayload"
    /\ last.err = "failed to set withdrawals"
    /\ last.events = <<"Exec", "setWithdrawals">>
    /\ last.prior = NoRow
    /\ RowOfCall(last) \in Rows(t_block_execution_payloads)
    /\ txOpen

\* the record Genesis makes of a row
GenesisOfRow(row) ==
    [GenesisValidatorsRoot |-> CopyInto(HashLen, row.f_validators_root),
     GenesisTime |-> row.f_time,
     GenesisForkVersion |-> CopyInto(VersionLen, row.f_fork_version)]

\* C16: the genesis table holds at most one row, whatever SetGenesis calls were made,
\* and a successful Genesis returns the record of that row.
C16_GenesisSingleton ==
    /\ BagCardinality(t_genesis) <= 1
    /\ (last.op = "Genesis" /\ last.err = "nil")
           => \A row \in Rows(t_genesis) : last.res = GenesisOfRow(row)

----------------------------------------------------------------------------
(* Claims about transactions, cancellation and guards *)

AllOps == WriteOps \cup ReadOps \cup {"GenesisTime", "executionPayload", "executionPayloads"}

Event(events) == {events[i] : i \in 1..Len(events)}

\* C17: an operation called with a context that carries a transaction works on that
\* transaction: it begins and commits no read-only transaction, and the caller's
\* transaction, open at the call, is open at the return, on success and on failure.
C17_CallerOwnsTransaction ==
    [][(Returns /\ last'.op \in AllOps /\ last'.ctx.tx) =>
           /\ Event(last'.events) \subseteq {"Exec", "Query", "QueryRow", "setWithdrawals"}
           /\ roOpen' = roOpen
           /\ txOpen /\ txOpen']_vars

C17_Witness ==
    /\ last.op = "ChainSpec"
    /\ last.ctx.tx
    /\ last.err = "failed to scan row"
    /\ last.events = <<"Query">>
    /\ txOpen
    /\ roOpen = 0

\* C18: an operation called with a cancelled context returns a failure, on every path.
C18_CancellationInherited ==
    (last.op \in AllOps /\ last.ctx.cancelled) => last.err # "nil"

\* the guard of setExecutionPayload that decides the call c, if one does
Guard(c) ==
    IF ~c.ctx.tx THEN "transaction"
    ELSE IF c.arg.nil THEN "block"
    ELSE IF c.arg.ExecutionPayload.nil THEN "payload"
    ELSE IF c.arg.ExecutionPayload.BlockHash = ZeroHash THEN "hash"
    ELSE "none"

\* C19: setExecutionPayload decides by its first applicable guard, in the order
\* missing transaction, nil block, nil payload, all-zero block hash: the
\* no-transaction error, the block missing error, and success for the two skip
\* cases; a call decided by a guard issues no statement, does not call the
\* withdrawals collaborator and leaves the tables as they were.
C19_GuardOrder ==
    [][(Returns /\ last'.op = "setExecutionPayload") =>
           LET c == last'
           IN  /\ Guard(c) = "transaction" => c.err = "ErrNoTransaction"
               /\ Guard(c) = "block" => c.err = "block missing"
               /\ Guard(c) \in {"payload", "hash"} => c.err = "nil"
               /\ Guard(c) # "none" => c.events = <<>> /\ tables' = tables
               /\ Guard(c) = "none" => Len(c.events) > 0 /\ c.events[1] = "Exec"]_vars

C19_Witness ==
    /\ last.op = "setExecutionPayload"
    /\ ~last.ctx.tx
    /\ txOpen
    /\ ~last.arg.nil
    /\ last.arg.ExecutionPayload.nil
    /\ last.err = "ErrNoTransaction"
    /\ last.events = <<>>
    /\ BagCardinality(t_block_execution_payloads) = 1

====
